---- MODULE Spec2Model ----
(***************************************************************************)
(* Weathergraph: the fetch pipeline (WeatherConnector, APIRequester,       *)
(* APIParser, CoordinatesGetter, build_openmeteo_url) and the spreadsheet  *)
(* layer (DataSaver, DataGetter, ensure_file_exists) as state machines.    *)
(*                                                                         *)
(* SpecFetch : one call of WeatherConnector.fetch_weather_data.            *)
(* Spec      : a DataSaver and a DataGetter working on one .xlsx file.     *)
(* SpecSheets: the same, with sheet names.                                 *)
(* SpecMain  : one run of main().                                          *)
(***************************************************************************)
EXTENDS Integers, Sequences, FiniteSets, TLC

VARIABLES
    \* ---- fetch pipeline (weather_connector.py) ----
    pc,         \* position inside fetch_weather_data
    location,   \* the argument of fetch_weather_data
    coords,     \* lat, lon returned by get_coordinates
    url,        \* the URL returned by build_openmeteo_url
    raw_data,   \* the JSON document returned by APIRequester.get_data
    fetched,    \* outcome of fetch_weather_data seen by its caller
    calls,      \* the stages executed so far, each with its own outcome
    \* ---- spreadsheet layer (data_saver.py, data_getter.py) ----
    disk,       \* the .xlsx file at the path, or NoFile
    saver,      \* the DataSaver instance (wb, ws), or NoObject
    getter,     \* the DataGetter instance (workbook), or NoObject
    last,       \* the last DataSaver/DataGetter call: name, arguments, outcome
    events,     \* the openpyxl calls (append, save) the last DataSaver call made
    \* ---- entry point (main.py) ----
    mpc,        \* position inside main
    handles,    \* the workbooks loaded during the run, each open or closed
    main_out    \* outcome of main: returned, or the exception that left it

fetchVars == <<pc, location, coords, url, raw_data, fetched, calls>>
dataVars  == <<disk, saver, getter, last, events>>
mainVars  == <<mpc, handles, main_out>>
vars      == <<pc, location, coords, url, raw_data, fetched, calls,
               disk, saver, getter, last, events, mpc, handles, main_out>>

(***************************************************************************)
(* Python values.  A cell value, a JSON scalar or a coordinate is a tagged *)
(* record; v is the text str() gives for it.                               *)
(***************************************************************************)
None   == [k |-> "none", v |-> "None"]
Num(s) == [k |-> "num", v |-> s]
Str(s) == [k |-> "str", v |-> s]

\* str(x) of a Python value
PyStr(x) == x.v

\* A Python call either returns a value or raises an exception.
Ok(x)       == [exc |-> "", msg |-> "", value |-> x]
Raise(t, m) == [exc |-> t, msg |-> m, value |-> <<>>]
Raised(r)   == r.exc # ""

\* dict.get(key, default)
Get(d, key, default) == IF key \in DOMAIN d THEN d[key] ELSE default

EmptyDict == [key \in {} |-> None]

Max(S) == CHOOSE x \in S : \A y \in S : y <= x
Min(S) == CHOOSE x \in S : \A y \in S : x <= y

(***************************************************************************)
(* utils/geo.py                                                            *)
(***************************************************************************)
\* What Nominatim's geocode() may answer: no match, or a match with its
\* latitude and longitude.
NoMatch == [found |-> FALSE, latitude |-> None, longitude |-> None]
GeocodeAnswers ==
    { NoMatch,
      [found |-> TRUE, latitude |-> Num("52.52"), longitude |-> Num("13.40")],
      [found |-> TRUE, latitude |-> Num("-25.5167"), longitude |-> Num("-54.6167")] }

Locations == { "Berlin, Germany", "", "qwertyuiop" }

get_coordinates(loc, result) ==
    IF result.found
    THEN Ok(<<result.latitude, result.longitude>>)
    ELSE Raise("ValueError", "Location not found")

(***************************************************************************)
(* utils/url_builder.py                                                    *)
(***************************************************************************)
\* urllib.parse.quote_plus on the texts that occur: the comma is reserved
Quote(s) ==
    IF s = "temperature_2m_min,temperature_2m_max"
    THEN "temperature_2m_min%2Ctemperature_2m_max"
    ELSE s

\* urlencode(params): the pairs in the dict's insertion order, each value
\* str()-ed and quoted
build_openmeteo_url(lat, lon) ==
    [ base  |-> "https://api.open-meteo.com/v1/forecast",
      query |-> << <<"latitude", Quote(PyStr(lat))>>,
                   <<"longitude", Quote(PyStr(lon))>>,
                   <<"current_weather", Quote("true")>>,
                   <<"daily", Quote("temperature_2m_min,temperature_2m_max")>>,
                   <<"timezone", Quote("auto")>> >> ]

NoUrl == [ base |-> "", query |-> <<>> ]

(***************************************************************************)
(* weather_api/api_client.py                                               *)
(***************************************************************************)
\* The JSON documents the endpoint may answer with: each of current_weather,
\* daily and the fields below them present or missing, each daily array
\* empty, of one element or of two.
DailyKeys == { "temperature_2m_min", "temperature_2m_max", "time" }

ArrayFirst(key) ==
    CASE key = "temperature_2m_min" -> Num("15.0")
      [] key = "temperature_2m_max" -> Num("25.0")
      [] OTHER                      -> Str("2025-01-01")

ArraySecond(key) ==
    CASE key = "temperature_2m_min" -> Num("14.0")
      [] key = "temperature_2m_max" -> Num("24.0")
      [] OTHER                      -> Str("2025-01-02")

Arrays(key) == { <<>>, <<ArrayFirst(key)>>, <<ArrayFirst(key), ArraySecond(key)>> }

AllArrays == UNION { Arrays(key) : key \in DailyKeys }

DailyDicts ==
    UNION { { d \in [S -> AllArrays] : \A key \in S : d[key] \in Arrays(key) }
            : S \in SUBSET DailyKeys }

CurrentDicts == { EmptyDict, [key \in {"temperature"} |-> Num("21.5")] }

Document(hasCurrent, current, hasDaily, daily) ==
    [ key \in (IF hasCurrent THEN {"current_weather"} ELSE {})
              \cup (IF hasDaily THEN {"daily"} ELSE {})
      |-> IF key = "current_weather" THEN current ELSE daily ]

Documents ==
    { Document(hc, c, hd, d) :
        hc \in BOOLEAN, c \in CurrentDicts, hd \in BOOLEAN, d \in DailyDicts }

\* HTTP status codes requests.get may answer with
StatusCodes == { 200, 404, 500 }

\* APIRequester.get_data, given the response requests.get returned
get_data_http(status_code, body) ==
    IF status_code = 200
    THEN Ok(body)
    ELSE Raise("Exception", <<"Error fetching data", status_code>>)

\* list[0]
Index0(list) ==
    IF Len(list) = 0 THEN Raise("IndexError", "list index out of range")
    ELSE Ok(list[1])

\* APIParser.parse_weather
parse_weather(data) ==
    LET current == Get(data, "current_weather", EmptyDict)
        daily   == Get(data, "daily", EmptyDict)
        temp    == Get(current, "temperature", None)
        tmin    == Index0(Get(daily, "temperature_2m_min", <<None>>))
        tmax    == Index0(Get(daily, "temperature_2m_max", <<None>>))
        time    == Index0(Get(daily, "time", <<None>>))
    IN  IF Raised(tmin) THEN tmin
        ELSE IF Raised(tmax) THEN tmax
        ELSE IF Raised(time) THEN time
        ELSE Ok(<<temp, tmin.value, tmax.value, time.value>>)

(***************************************************************************)
(* weather_api/weather_connector.py: fetch_weather_data, one statement per *)
(* action.  No statement is inside a try block: an exception raised by a   *)
(* stage leaves fetch_weather_data at once, as that exception.             *)
(***************************************************************************)
NoCoords == <<None, None>>

\* The exception a failed stage hands to the caller of fetch_weather_data
Propagate(r) == r

FetchInit ==
    /\ pc = "start"
    /\ location \in Locations
    /\ coords = NoCoords
    /\ url = NoUrl
    /\ raw_data = EmptyDict
    /\ fetched = Ok(<<>>)
    /\ calls = <<>>

\* Faulty variant: an exception of a stage is swallowed and the next statement runs
AfterSwallowed(r, next) == next

\* the position after a stage: on to the next statement, or out by exception
After(r, next) == IF Raised(r) THEN "raised" ELSE next

\* lat, lon = self.coordinates_getter.get_coordinates(location)
FetchResolve ==
    /\ pc = "start"
    /\ \E answer \in GeocodeAnswers :
         LET r == get_coordinates(location, answer) IN
         /\ calls' = Append(calls, [stage |-> "get_coordinates", out |-> r])
         /\ coords' = IF Raised(r) THEN coords ELSE r.value
         /\ fetched' = IF Raised(r) THEN Propagate(r) ELSE fetched
         /\ pc' = After(r, "resolved")
    /\ UNCHANGED <<location, url, raw_data>>
    /\ UNCHANGED dataVars
    /\ UNCHANGED mainVars

\* url = self.url_builder(lat, lon)
FetchBuildUrl ==
    /\ pc = "resolved"
    /\ LET r == Ok(build_openmeteo_url(coords[1], coords[2])) IN
         /\ calls' = Append(calls, [stage |-> "build_openmeteo_url", out |-> r])
         /\ url' = r.value
         /\ pc' = After(r, "built")
    /\ UNCHANGED <<location, coords, raw_data, fetched>>
    /\ UNCHANGED dataVars
    /\ UNCHANGED mainVars

\* requester = APIRequester(url); raw_data = requester.get_data()
FetchGet ==
    /\ pc = "built"
    /\ \E status_code \in StatusCodes, body \in Documents :
         LET r == get_data_http(status_code, body) IN
         /\ calls' = Append(calls, [stage |-> "get_data", out |-> r])
         /\ raw_data' = IF Raised(r) THEN raw_data ELSE r.value
         /\ fetched' = IF Raised(r) THEN Propagate(r) ELSE fetched
         /\ pc' = After(r, "fetched")
    /\ UNCHANGED <<location, coords, url>>
    /\ UNCHANGED dataVars
    /\ UNCHANGED mainVars

\* parser = APIParser(raw_data); return parser.parse_weather()
FetchParse ==
    /\ pc = "fetched"
    /\ LET r == parse_weather(raw_data) IN
         /\ calls' = Append(calls, [stage |-> "parse_weather", out |-> r])
         /\ fetched' = IF Raised(r) THEN Propagate(r) ELSE r
         /\ pc' = After(r, "returned")
    /\ UNCHANGED <<location, coords, url, raw_data>>
    /\ UNCHANGED dataVars
    /\ UNCHANGED mainVars

FetchNext == FetchResolve \/ FetchBuildUrl \/ FetchGet \/ FetchParse

(***************************************************************************)
(* openpyxl, as the spreadsheet layer uses it.                             *)
(*                                                                         *)
(* A worksheet in memory is the sequence of its rows; row r holds a cell   *)
(* in each column 1..Len(row).  Worksheet.append creates a cell for every  *)
(* element of the row, None included, in row _current_row + 1, and         *)
(* _current_row is the number of rows.  A cell that was never created      *)
(* reads as None.                                                          *)
(***************************************************************************)
Cell(ws, r, c) ==
    IF r \in 1..Len(ws) /\ c \in 1..Len(ws[r]) THEN ws[r][c] ELSE None

\* Worksheet.max_row: the largest row index that holds a cell, 1 on a sheet
\* without cells
max_row(ws) ==
    LET used == { r \in 1..Len(ws) : Len(ws[r]) > 0 }
    IN  IF used = {} THEN 1 ELSE Max(used)

\* Worksheet.max_column: the largest column index that holds a cell, 1 on a
\* sheet without cells
max_column(ws) == Max({1} \cup { Len(ws[r]) : r \in 1..Len(ws) })

\* Worksheet.iter_rows(min_row, max_row, values_only=True): one tuple per row
\* of the range, each of max_column values
iter_rows(ws, first, lastr) ==
    [ i \in 1..(lastr - first + 1) |->
        [ c \in 1..max_column(ws) |-> Cell(ws, first + i - 1, c) ] ]

\* Workbook(): one empty sheet, titled "Sheet", which is the active one
NewWorkbook == [ sheetnames |-> <<"Sheet">>, sheets |-> [ t \in {"Sheet"} |-> <<>> ] ]

NoWorkbook == [ sheetnames |-> <<>>, sheets |-> EmptyDict ]

\* Workbook.active: the sheet at _active_sheet_index, which stays 0
active(wb) == wb.sheetnames[1]

\* Workbook.create_sheet(title): a new empty sheet after the others
create_sheet(wb, title) ==
    [ sheetnames |-> Append(wb.sheetnames, title),
      sheets     |-> [ t \in DOMAIN wb.sheets \cup {title} |->
                         IF t = title THEN <<>> ELSE wb.sheets[t] ] ]

\* ws.append(row) on sheet t of wb
append_row(wb, t, row) ==
    [ wb EXCEPT !.sheets[t] = Append(wb.sheets[t], row) ]

\* The file: for each sheet the cells that hold a value, as <<row, column,
\* value>>.  Workbook.save writes no cell whose value is None.
NoFile == [ exists |-> FALSE, sheetnames |-> <<>>, cells |-> EmptyDict ]

CellsOf(ws) ==
    { t \in { <<r, c, Cell(ws, r, c)>> : r \in 1..Len(ws), c \in 1..max_column(ws) } :
        t[3] # None }

wb_save(wb) ==
    [ exists     |-> TRUE,
      sheetnames |-> wb.sheetnames,
      cells      |-> [ t \in DOMAIN wb.sheets |-> CellsOf(wb.sheets[t]) ] ]

\* openpyxl.load_workbook: the cells of the file, row by row; _current_row
\* is the last row that holds a cell
SheetOf(cells) ==
    LET used == { t[1] : t \in cells }
        n    == IF used = {} THEN 0 ELSE Max(used)
    IN  [ r \in 1..n |->
            LET cols == { t[2] : t \in { u \in cells : u[1] = r } }
                m    == IF cols = {} THEN 0 ELSE Max(cols)
            IN  [ c \in 1..m |->
                    IF \E t \in cells : t[1] = r /\ t[2] = c
                    THEN (CHOOSE t \in cells : t[1] = r /\ t[2] = c)[3]
                    ELSE None ] ]

load_workbook(file) ==
    [ sheetnames |-> file.sheetnames,
      sheets     |-> [ t \in DOMAIN file.cells |-> SheetOf(file.cells[t]) ] ]

(***************************************************************************)
(* utils/file_initializer.py                                               *)
(***************************************************************************)
headers_row == << Str("current_temp"), Str("min_temp"), Str("max_temp"), Str("date") >>

\* ensure_file_exists(file_path): the file afterwards
ensure_file_exists(file) ==
    IF file.exists THEN file
    ELSE wb_save(append_row(NewWorkbook, active(NewWorkbook), headers_row))

(***************************************************************************)
(* data_manager/data_saver.py                                              *)
(***************************************************************************)
\* The arguments callers pass as a row: a Python object with its type and,
\* for a sequence, its items.
RowA     == [ type |-> "list",
              items |-> << Num("21.5"), Num("15.0"), Num("25.0"), Str("2025-01-01") >> ]
RowNone  == [ type |-> "list", items |-> << None, None, None, None >> ]
RowShort == [ type |-> "tuple", items |-> << Num("18.0"), Num("12.0"), Num("22.0") >> ]
RowEmpty == [ type |-> "list", items |-> << >> ]
RowText  == [ type |-> "str", items |-> << Str("a"), Str("b") >> ]

RowArgs == { RowA, RowNone, RowShort, RowEmpty, RowText }

\* the row of another day
RowB     == [ type |-> "list",
              items |-> << Num("19.0"), Num("11.0"), Num("23.0"), Str("2025-01-02") >> ]

NoSaver == [ exists |-> FALSE, wb |-> NoWorkbook, ws |-> "" ]

\* DataSaver._validate_row
ValidRow(row) == row.type \in {"list", "tuple"} /\ Len(row.items) # 0

_validate_row(row) ==
    IF ValidRow(row) THEN Ok(<<>>)
    ELSE Raise("ValueError", "Row must be a non-empty list or tuple")

\* DataSaver.__init__: the file after ensure_file_exists, and the instance
DataSaver_file(file) == ensure_file_exists(file)

\* Faulty variant: a named sheet is created anew even when the workbook holds it
DataSaver_init_fresh(file, sheet_name) ==
    LET wb == load_workbook(ensure_file_exists(file))
    IN  IF sheet_name # ""
        THEN [ exists |-> TRUE, wb |-> create_sheet(wb, sheet_name), ws |-> sheet_name ]
        ELSE [ exists |-> TRUE, wb |-> wb, ws |-> active(wb) ]

DataSaver_init(file, sheet_name) ==
    LET wb == load_workbook(ensure_file_exists(file))
    IN  IF sheet_name # ""
        THEN IF sheet_name \in DOMAIN wb.sheets
             THEN [ exists |-> TRUE, wb |-> wb, ws |-> sheet_name ]
             ELSE [ exists |-> TRUE, wb |-> create_sheet(wb, sheet_name),
                    ws |-> sheet_name ]
        ELSE [ exists |-> TRUE, wb |-> wb, ws |-> active(wb) ]

\* A DataSaver call leaves the instance, the file, the openpyxl calls it
\* made and its outcome.
Done(obj, file, evs, out) == [ obj |-> obj, file |-> file, evs |-> evs, out |-> out ]

\* DataSaver._save_workbook
_save_workbook(d) ==
    Done(d.obj, wb_save(d.obj.wb), Append(d.evs, "save"), d.out)

\* self._validate_row(row); self.ws.append(list(row))
validate_and_append(d, row) ==
    IF Raised(_validate_row(row))
    THEN Done(d.obj, d.file, d.evs, _validate_row(row))
    ELSE Done([ d.obj EXCEPT !.wb = append_row(d.obj.wb, d.obj.ws, row.items) ],
              d.file, Append(d.evs, "append"), d.out)

\* Faulty variant: save_data without the call of _save_workbook
save_data_unsaved(obj, file, row) ==
    validate_and_append(Done(obj, file, <<>>, Ok(<<>>)), row)

\* DataSaver.save_data
save_data(obj, file, row) ==
    LET d == validate_and_append(Done(obj, file, <<>>, Ok(<<>>)), row)
    IN  IF Raised(d.out) THEN d ELSE _save_workbook(d)

\* the for loop of DataSaver.save_rows, from row i on
RECURSIVE save_rows_loop(_, _, _)
save_rows_loop(d, rows, i) ==
    IF i > Len(rows) THEN d
    ELSE LET e == validate_and_append(d, rows[i])
         IN  IF Raised(e.out) THEN e ELSE save_rows_loop(e, rows, i + 1)

\* Faulty variant: save_rows saving inside the loop, after each row
RECURSIVE save_rows_each_loop(_, _, _)
save_rows_each_loop(d, rows, i) ==
    IF i > Len(rows) THEN d
    ELSE LET e == validate_and_append(d, rows[i])
         IN  IF Raised(e.out) THEN e
             ELSE save_rows_each_loop(_save_workbook(e), rows, i + 1)

save_rows_each(obj, file, rows) ==
    save_rows_each_loop(Done(obj, file, <<>>, Ok(<<>>)), rows, 1)

\* Faulty variant: save_rows validating every row before it appends any
save_rows_atomic(obj, file, rows) ==
    IF \E i \in 1..Len(rows) : ~ValidRow(rows[i])
    THEN Done(obj, file, <<>>, Raise("ValueError", "Row must be a non-empty list or tuple"))
    ELSE _save_workbook(save_rows_loop(Done(obj, file, <<>>, Ok(<<>>)), rows, 1))

\* DataSaver.save_rows
save_rows(obj, file, rows) ==
    LET d == save_rows_loop(Done(obj, file, <<>>, Ok(<<>>)), rows, 1)
    IN  IF Raised(d.out) THEN d ELSE _save_workbook(d)

(***************************************************************************)
(* data_manager/data_getter.py                                             *)
(* self.workbook is None or a loaded workbook: the empty sequence, or the  *)
(* sequence of that one workbook.                                          *)
(***************************************************************************)
NoGetter == [ exists |-> FALSE, workbook |-> <<>> ]

\* DataGetter.__init__
DataGetter_init(file) ==
    IF ~file.exists THEN Raise("ValueError", "File does not exist")
    ELSE Ok([ exists |-> TRUE, workbook |-> <<>> ])

\* Faulty variant: open_file loads the file whether or not a workbook is loaded
open_file_reload(obj, file) ==
    [ obj EXCEPT !.workbook = << load_workbook(file) >> ]

\* DataGetter.open_file
open_file(obj, file) ==
    IF obj.workbook = <<>>
    THEN [ obj EXCEPT !.workbook = << load_workbook(file) >> ]
    ELSE obj

\* DataGetter.close_file
close_file(obj) ==
    IF obj.workbook # <<>> THEN [ obj EXCEPT !.workbook = <<>> ] ELSE obj

\* DataGetter.get_sheet: the title of the sheet it returns
get_sheet(workbook, sheet_name) ==
    IF workbook = <<>>
    THEN Raise("RuntimeError", "Workbook is not loaded.")
    ELSE IF sheet_name # ""
         THEN IF sheet_name \in DOMAIN workbook[1].sheets
              THEN Ok(sheet_name)
              ELSE Raise("KeyError", "Worksheet does not exist.")
         ELSE IF workbook[1].sheetnames = <<>>
              THEN Raise("ValueError", "Sheet not found in workbook.")
              ELSE Ok(active(workbook[1]))

\* str(cell.value) if cell.value is not None else ""
HeaderText(value) == IF value = None THEN "" ELSE PyStr(value)

\* DataGetter._get_headers
_get_headers(workbook, sheet) ==
    LET sheet_obj == get_sheet(workbook, sheet)
    IN  IF Raised(sheet_obj) THEN sheet_obj
        ELSE LET ws == workbook[1].sheets[sheet_obj.value]
             IN  Ok([ c \in 1..max_column(ws) |-> HeaderText(Cell(ws, 1, c)) ])

\* Faulty variant: max_row is n_rows instead of n_rows + 1
_get_top_rows_short(workbook, n_rows, sheet) ==
    IF n_rows < 1
    THEN Raise("ValueError", "n_rows must be a positive integer.")
    ELSE LET sheet_obj == get_sheet(workbook, sheet)
         IN  IF Raised(sheet_obj) THEN sheet_obj
             ELSE LET ws == workbook[1].sheets[sheet_obj.value]
                  IN  Ok(iter_rows(ws, 2, Min({n_rows, max_row(ws)})))

\* DataGetter._get_top_rows
_get_top_rows(workbook, n_rows, sheet) ==
    IF n_rows < 1
    THEN Raise("ValueError", "n_rows must be a positive integer.")
    ELSE LET sheet_obj == get_sheet(workbook, sheet)
         IN  IF Raised(sheet_obj) THEN sheet_obj
             ELSE LET ws == workbook[1].sheets[sheet_obj.value]
                  IN  Ok(iter_rows(ws, 2, Min({n_rows + 1, max_row(ws)})))

\* Faulty variant: min_row is bounded below by 1 instead of 2
_get_bottom_rows_header(workbook, n_rows, sheet) ==
    IF n_rows < 1
    THEN Raise("ValueError", "n_rows must be a positive integer.")
    ELSE LET sheet_obj == get_sheet(workbook, sheet)
         IN  IF Raised(sheet_obj) THEN sheet_obj
             ELSE LET ws      == workbook[1].sheets[sheet_obj.value]
                      min_row == Max({1, max_row(ws) - n_rows + 1})
                  IN  Ok(iter_rows(ws, min_row, max_row(ws)))

\* Faulty variant: min_row is max_row - n_rows, one row too early
_get_bottom_rows_early(workbook, n_rows, sheet) ==
    IF n_rows < 1
    THEN Raise("ValueError", "n_rows must be a positive integer.")
    ELSE LET sheet_obj == get_sheet(workbook, sheet)
         IN  IF Raised(sheet_obj) THEN sheet_obj
             ELSE LET ws      == workbook[1].sheets[sheet_obj.value]
                      min_row == Max({2, max_row(ws) - n_rows})
                  IN  Ok(iter_rows(ws, min_row, max_row(ws)))

\* DataGetter._get_bottom_rows
_get_bottom_rows(workbook, n_rows, sheet) ==
    IF n_rows < 1
    THEN Raise("ValueError", "n_rows must be a positive integer.")
    ELSE LET sheet_obj == get_sheet(workbook, sheet)
         IN  IF Raised(sheet_obj) THEN sheet_obj
             ELSE LET ws      == workbook[1].sheets[sheet_obj.value]
                      min_row == Max({2, max_row(ws) - n_rows + 1})
                  IN  Ok(iter_rows(ws, min_row, max_row(ws)))

\* dict(zip(headers, row)): a later pair replaces an earlier one of the
\* same key
ZipDict(headers, row) ==
    LET n == Min({Len(headers), Len(row)})
    IN  [ h \in { headers[i] : i \in 1..n } |->
            row[Max({ i \in 1..n : headers[i] = h })] ]

\* DataGetter._rows_to_dicts
_rows_to_dicts(rows, headers) ==
    IF \E i \in 1..Len(rows) : Len(rows[i]) # Len(headers)
    THEN Raise("ValueError", "Row length does not match header length.")
    ELSE Ok([ i \in 1..Len(rows) |-> ZipDict(headers, rows[i]) ])

\* DataGetter.get_data
get_data(workbook, n_rows, from_top, sheet) ==
    LET headers == _get_headers(workbook, sheet)
        rows    == IF from_top THEN _get_top_rows(workbook, n_rows, sheet)
                   ELSE _get_bottom_rows(workbook, n_rows, sheet)
    IN  IF Raised(headers) THEN headers
        ELSE IF Raised(rows) THEN rows
        ELSE _rows_to_dicts(rows.value, headers.value)

\* DataGetter.get_all_data
get_all_data(workbook, sheet) ==
    LET headers   == _get_headers(workbook, sheet)
        sheet_obj == get_sheet(workbook, sheet)
    IN  IF Raised(headers) THEN headers
        ELSE IF Raised(sheet_obj) THEN sheet_obj
        ELSE LET ws   == workbook[1].sheets[sheet_obj.value]
                 rows == _get_top_rows(workbook, max_row(ws) - 1, sheet)
             IN  IF Raised(rows) THEN rows
                 ELSE _rows_to_dicts(rows.value, headers.value)

(***************************************************************************)
(* The calls a program makes on one DataSaver and one DataGetter of the    *)
(* same file.                                                              *)
(***************************************************************************)
\* bounds of the model
MaxRows  == 3     \* rows a sheet may grow to
MaxBatch == 2     \* rows in one save_rows call

\* the arguments enumerated
SaverSheets  == { "" }
GetterSheets == { "" }
Counts       == 0..MaxRows

RECURSIVE SeqsUpTo(_, _)
SeqsUpTo(S, n) ==
    IF n = 0 THEN { <<>> }
    ELSE LET shorter == SeqsUpTo(S, n - 1)
         IN  shorter \cup { Append(q, x) : q \in { p \in shorter : Len(p) = n - 1 }, x \in S }

Call(op, args, out) == [ op |-> op, args |-> args, out |-> out ]

DataInit ==
    /\ disk = NoFile
    /\ saver = NoSaver
    /\ getter = NoGetter
    /\ last = Call("none", <<>>, Ok(<<>>))
    /\ events = <<>>

\* data_saver = DataSaver(path, sheet_name)
NewDataSaver ==
    /\ \E sheet_name \in SaverSheets :
         /\ disk' = DataSaver_file(disk)
         /\ saver' = DataSaver_init(disk, sheet_name)
         /\ last' = Call("DataSaver", <<sheet_name>>, Ok(<<>>))
    /\ events' = <<>>
    /\ UNCHANGED getter
    /\ UNCHANGED fetchVars
    /\ UNCHANGED mainVars

\* data_saver.save_data(row)
SaveData ==
    /\ saver.exists
    /\ Len(saver.wb.sheets[saver.ws]) < MaxRows
    /\ \E row \in RowArgs :
         LET d == save_data(saver, disk, row) IN
         /\ saver' = d.obj
         /\ disk' = d.file
         /\ events' = d.evs
         /\ last' = Call("save_data", <<row>>, d.out)
    /\ UNCHANGED getter
    /\ UNCHANGED fetchVars
    /\ UNCHANGED mainVars

\* data_saver.save_rows(rows)
SaveRows ==
    /\ saver.exists
    /\ \E rows \in SeqsUpTo(RowArgs, MaxBatch) :
         /\ Len(saver.wb.sheets[saver.ws]) + Len(rows) <= MaxRows
         /\ LET d == save_rows(saver, disk, rows) IN
            /\ saver' = d.obj
            /\ disk' = d.file
            /\ events' = d.evs
            /\ last' = Call("save_rows", <<rows>>, d.out)
    /\ UNCHANGED getter
    /\ UNCHANGED fetchVars
    /\ UNCHANGED mainVars

\* data_getter = DataGetter(path)
NewDataGetter ==
    /\ LET r == DataGetter_init(disk) IN
         /\ getter' = IF Raised(r) THEN getter ELSE r.value
         /\ last' = Call("DataGetter", <<>>, IF Raised(r) THEN r ELSE Ok(<<>>))
    /\ UNCHANGED <<disk, saver, events>>
    /\ UNCHANGED fetchVars
    /\ UNCHANGED mainVars

\* data_getter.open_file()
OpenFile ==
    /\ getter.exists
    /\ getter' = open_file(getter, disk)
    /\ last' = Call("open_file", <<>>, Ok(<<>>))
    /\ UNCHANGED <<disk, saver, events>>
    /\ UNCHANGED fetchVars
    /\ UNCHANGED mainVars

\* data_getter.close_file()
CloseFile ==
    /\ getter.exists
    /\ getter' = close_file(getter)
    /\ last' = Call("close_file", <<>>, Ok(<<>>))
    /\ UNCHANGED <<disk, saver, events>>
    /\ UNCHANGED fetchVars
    /\ UNCHANGED mainVars

\* data_getter.get_sheet(sheet)
GetSheet ==
    /\ getter.exists
    /\ \E sheet \in GetterSheets :
         last' = Call("get_sheet", <<sheet>>, get_sheet(getter.workbook, sheet))
    /\ UNCHANGED <<disk, saver, getter, events>>
    /\ UNCHANGED fetchVars
    /\ UNCHANGED mainVars

\* data_getter.get_data(n_rows, from_top, sheet)
GetData ==
    /\ getter.exists
    /\ \E n_rows \in Counts, from_top \in BOOLEAN, sheet \in GetterSheets :
         last' = Call("get_data", <<n_rows, from_top, sheet>>,
                      get_data(getter.workbook, n_rows, from_top, sheet))
    /\ UNCHANGED <<disk, saver, getter, events>>
    /\ UNCHANGED fetchVars
    /\ UNCHANGED mainVars

\* data_getter.get_all_data(sheet)
GetAllData ==
    /\ getter.exists
    /\ \E sheet \in GetterSheets :
         last' = Call("get_all_data", <<sheet>>, get_all_data(getter.workbook, sheet))
    /\ UNCHANGED <<disk, saver, getter, events>>
    /\ UNCHANGED fetchVars
    /\ UNCHANGED mainVars

Next ==
    \/ NewDataSaver
    \/ SaveData
    \/ SaveRows
    \/ NewDataGetter
    \/ OpenFile
    \/ CloseFile
    \/ GetSheet
    \/ GetData
    \/ GetAllData

FetchIdle ==
    /\ pc = "start"
    /\ location = ""
    /\ coords = NoCoords
    /\ url = NoUrl
    /\ raw_data = EmptyDict
    /\ fetched = Ok(<<>>)
    /\ calls = <<>>

\* main is not running
MainIdle ==
    /\ mpc = "idle"
    /\ handles = <<>>
    /\ main_out = Ok(<<>>)

Init == DataInit /\ FetchIdle /\ MainIdle

Spec == Init /\ [][Next]_vars

InitFetch == FetchInit /\ DataInit /\ MainIdle

SpecFetch == InitFetch /\ [][FetchNext]_vars

(***************************************************************************)
(* SpecSheets: DataSaver and DataGetter of one file, with sheet names.     *)
(* DataSaver(path, sheet_name) is constructed again and again, as each run *)
(* of a program does, and the reads name a sheet or none.                  *)
(***************************************************************************)
MaxSheetRows == 2     \* rows a sheet may grow to under SpecSheets

\* sheet_name of DataSaver: none, or a name the new file does not hold
WriterNames == { "", "Log" }
\* sheet of the reads: none, a name a DataSaver may have created, a name no
\* DataSaver creates
ReaderNames == { "", "Log", "Data" }
SheetRowArgs == { RowA, RowEmpty }

\* data_saver = DataSaver(path, sheet_name)
SheetsNewDataSaver ==
    /\ \E sheet_name \in WriterNames :
         /\ disk' = DataSaver_file(disk)
         /\ saver' = DataSaver_init(disk, sheet_name)
         /\ last' = Call("DataSaver", <<sheet_name>>, Ok(<<>>))
    /\ events' = <<>>
    /\ UNCHANGED getter
    /\ UNCHANGED fetchVars
    /\ UNCHANGED mainVars

\* data_saver.save_data(row)
SheetsSaveData ==
    /\ saver.exists
    /\ Len(saver.wb.sheets[saver.ws]) < MaxSheetRows
    /\ \E row \in SheetRowArgs :
         LET d == save_data(saver, disk, row) IN
         /\ saver' = d.obj
         /\ disk' = d.file
         /\ events' = d.evs
         /\ last' = Call("save_data", <<row>>, d.out)
    /\ UNCHANGED getter
    /\ UNCHANGED fetchVars
    /\ UNCHANGED mainVars

\* data_saver.save_rows(rows)
SheetsSaveRows ==
    /\ saver.exists
    /\ \E rows \in SeqsUpTo(SheetRowArgs, MaxBatch) :
         /\ Len(saver.wb.sheets[saver.ws]) + Len(rows) <= MaxSheetRows
         /\ LET d == save_rows(saver, disk, rows) IN
            /\ saver' = d.obj
            /\ disk' = d.file
            /\ events' = d.evs
            /\ last' = Call("save_rows", <<rows>>, d.out)
    /\ UNCHANGED getter
    /\ UNCHANGED fetchVars
    /\ UNCHANGED mainVars

\* data_getter = DataGetter(path); data_getter.open_file()
SheetsOpenReader ==
    /\ ~Raised(DataGetter_init(disk))
    /\ getter' = open_file(DataGetter_init(disk).value, disk)
    /\ last' = Call("open_file", <<>>, Ok(<<>>))
    /\ UNCHANGED <<disk, saver, events>>
    /\ UNCHANGED fetchVars
    /\ UNCHANGED mainVars

\* data_getter.get_sheet(sheet)
SheetsGetSheet ==
    /\ getter.exists
    /\ \E sheet \in ReaderNames :
         last' = Call("get_sheet", <<sheet>>, get_sheet(getter.workbook, sheet))
    /\ UNCHANGED <<disk, saver, getter, events>>
    /\ UNCHANGED fetchVars
    /\ UNCHANGED mainVars

\* data_getter.get_data(n_rows, from_top, sheet)
SheetsGetData ==
    /\ getter.exists
    /\ \E n_rows \in 1..MaxSheetRows, from_top \in BOOLEAN, sheet \in ReaderNames :
         last' = Call("get_data", <<n_rows, from_top, sheet>>,
                      get_data(getter.workbook, n_rows, from_top, sheet))
    /\ UNCHANGED <<disk, saver, getter, events>>
    /\ UNCHANGED fetchVars
    /\ UNCHANGED mainVars

\* data_getter.get_all_data(sheet)
SheetsGetAllData ==
    /\ getter.exists
    /\ \E sheet \in ReaderNames :
         last' = Call("get_all_data", <<sheet>>, get_all_data(getter.workbook, sheet))
    /\ UNCHANGED <<disk, saver, getter, events>>
    /\ UNCHANGED fetchVars
    /\ UNCHANGED mainVars

NextSheets ==
    \/ SheetsNewDataSaver
    \/ SheetsSaveData
    \/ SheetsSaveRows
    \/ SheetsOpenReader
    \/ SheetsGetSheet
    \/ SheetsGetData
    \/ SheetsGetAllData

SpecSheets == Init /\ [][NextSheets]_vars

(***************************************************************************)
(* SpecDays: a dataset that grows by one row a day, and reads of its top   *)
(* and bottom rows.                                                        *)
(***************************************************************************)
MaxDays == 5     \* data rows the dataset may grow to under SpecDays

DayRowArgs == { RowA, RowB }

\* data_saver = DataSaver(path)
DaysNewDataSaver ==
    /\ ~saver.exists
    /\ disk' = DataSaver_file(disk)
    /\ saver' = DataSaver_init(disk, "")
    /\ last' = Call("DataSaver", << "" >>, Ok(<<>>))
    /\ events' = <<>>
    /\ UNCHANGED getter
    /\ UNCHANGED fetchVars
    /\ UNCHANGED mainVars

\* data_saver.save_data(row)
DaysSaveData ==
    /\ saver.exists
    /\ Len(saver.wb.sheets[saver.ws]) < MaxDays + 1
    /\ \E row \in DayRowArgs :
         LET d == save_data(saver, disk, row) IN
         /\ saver' = d.obj
         /\ disk' = d.file
         /\ events' = d.evs
         /\ last' = Call("save_data", <<row>>, d.out)
    /\ UNCHANGED getter
    /\ UNCHANGED fetchVars
    /\ UNCHANGED mainVars

\* data_getter = DataGetter(path); data_getter.open_file()
DaysOpenReader ==
    /\ ~Raised(DataGetter_init(disk))
    /\ getter' = open_file(DataGetter_init(disk).value, disk)
    /\ last' = Call("open_file", <<>>, Ok(<<>>))
    /\ UNCHANGED <<disk, saver, events>>
    /\ UNCHANGED fetchVars
    /\ UNCHANGED mainVars

\* data_getter.get_data(n_rows, from_top)
DaysGetData ==
    /\ getter.exists
    /\ \E n_rows \in 1..3, from_top \in BOOLEAN :
         last' = Call("get_data", <<n_rows, from_top, "">>,
                      get_data(getter.workbook, n_rows, from_top, ""))
    /\ UNCHANGED <<disk, saver, getter, events>>
    /\ UNCHANGED fetchVars
    /\ UNCHANGED mainVars

NextDays ==
    \/ DaysNewDataSaver
    \/ DaysSaveData
    \/ DaysOpenReader
    \/ DaysGetData

SpecDays == Init /\ [][NextDays]_vars

(***************************************************************************)
(* utils/load_preferences.py                                               *)
(***************************************************************************)
\* The settings file: absent, not valid TOML, or a document of sections
NoSettings  == [ exists |-> FALSE, valid |-> FALSE, doc |-> EmptyDict ]
BadSettings == [ exists |-> TRUE, valid |-> FALSE, doc |-> EmptyDict ]

Section(city, country) ==
    [ key \in {"city", "country"} |-> IF key = "city" THEN city ELSE country ]

LocationSections ==
    { EmptyDict,
      [ key \in {"city"} |-> "Berlin" ],
      Section("Berlin", "Germany"),
      Section("qwertyuiop", "") }

SettingsFiles ==
    { NoSettings, BadSettings,
      [ exists |-> TRUE, valid |-> TRUE, doc |-> EmptyDict ] }
    \cup { [ exists |-> TRUE, valid |-> TRUE,
             doc |-> [ key \in {"location"} |-> sec ] ] : sec \in LocationSections }

\* d[key]
Subscript(d, key) ==
    IF key \in DOMAIN d THEN Ok(d[key]) ELSE Raise("KeyError", key)

\* PreferencesLoader.load_preferences
load_preferences(file) ==
    IF ~file.exists
    THEN Raise("FileNotFoundError", "Configuration file does not exist")
    ELSE IF ~file.valid THEN Raise("RuntimeError", "Syntax error in TOML")
    ELSE Ok(file.doc)

\* PreferencesLoader.load_section
load_section(preferences, section) ==
    IF Raised(Subscript(preferences, section))
    THEN Raise("KeyError", "Section not found")
    ELSE Subscript(preferences, section)

\* PreferencesLoader.load_location_preferences
load_location_preferences(preferences) ==
    IF "location" \in DOMAIN preferences
    THEN load_section(preferences, "location")
    ELSE Raise("KeyError", "Missing 'location' section")

(***************************************************************************)
(* main.py: main(), one statement per action; the call of                  *)
(* fetch_weather_data runs the actions of the fetch pipeline.  No          *)
(* statement is inside a try or a with block.                              *)
(***************************************************************************)
\* preferences = PreferencesLoader().load_location_preferences()
\* location = f"{preferences['city']}, {preferences['country']}"
main_location(file) ==
    LET loaded == load_preferences(file) IN
    IF Raised(loaded) THEN loaded
    ELSE LET preferences == load_location_preferences(loaded.value) IN
         IF Raised(preferences) THEN preferences
         ELSE LET city    == Subscript(preferences.value, "city")
                  country == Subscript(preferences.value, "country")
              IN  IF Raised(city) THEN city
                  ELSE IF Raised(country) THEN country
                  ELSE Ok(city.value \o ", " \o country.value)

\* a workbook openpyxl.load_workbook returned, not closed yet
OpenHandle(owner) == [ owner |-> owner, closed |-> FALSE ]

MainInit ==
    /\ mpc = "start"
    /\ handles = <<>>
    /\ main_out = Ok(<<>>)
    /\ pc = "idle"
    /\ location = ""
    /\ coords = NoCoords
    /\ url = NoUrl
    /\ raw_data = EmptyDict
    /\ fetched = Ok(<<>>)
    /\ calls = <<>>

\* lines 24-25, and the entry into fetch_weather_data(location) of line 31
MainLoadPreferences ==
    /\ mpc = "start"
    /\ \E file \in SettingsFiles :
         LET r == main_location(file) IN
         /\ mpc' = After(r, "fetch")
         /\ main_out' = IF Raised(r) THEN r ELSE main_out
         /\ location' = IF Raised(r) THEN location ELSE r.value
         /\ pc' = IF Raised(r) THEN pc ELSE "start"
    /\ UNCHANGED <<coords, url, raw_data, fetched, calls, handles>>
    /\ UNCHANGED dataVars

\* weather_data = weather_connector.fetch_weather_data(location)
MainFetched ==
    /\ mpc = "fetch"
    /\ pc \in { "returned", "raised" }
    /\ mpc' = After(fetched, "saver")
    /\ main_out' = IF Raised(fetched) THEN fetched ELSE main_out
    /\ UNCHANGED handles
    /\ UNCHANGED fetchVars
    /\ UNCHANGED dataVars

\* data_saver = DataSaver('data/data.xlsx')
MainNewDataSaver ==
    /\ mpc = "saver"
    /\ disk' = DataSaver_file(disk)
    /\ saver' = DataSaver_init(disk, "")
    /\ handles' = Append(handles, OpenHandle("DataSaver"))
    /\ last' = Call("DataSaver", << "" >>, Ok(<<>>))
    /\ events' = <<>>
    /\ mpc' = "save"
    /\ UNCHANGED <<getter, main_out>>
    /\ UNCHANGED fetchVars

\* data_saver.save_data(weather_data); main returns after it
MainSaveData ==
    /\ mpc = "save"
    /\ LET row == [ type |-> "list", items |-> fetched.value ]
           d   == save_data(saver, disk, row)
       IN  /\ saver' = d.obj
           /\ disk' = d.file
           /\ events' = d.evs
           /\ last' = Call("save_data", <<row>>, d.out)
           /\ mpc' = After(d.out, "done")
           /\ main_out' = IF Raised(d.out) THEN d.out ELSE main_out
    /\ UNCHANGED <<getter, handles>>
    /\ UNCHANGED fetchVars

NextMain ==
    \/ MainLoadPreferences
    \/ FetchResolve
    \/ FetchBuildUrl
    \/ FetchGet
    \/ FetchParse
    \/ MainFetched
    \/ MainNewDataSaver
    \/ MainSaveData

InitMain == MainInit /\ DataInit

SpecMain == InitMain /\ [][NextMain]_vars

(***************************************************************************)
(* Properties of the fetch pipeline, checked under SpecFetch.             *)
(***************************************************************************)
StageOrder == <<"get_coordinates", "build_openmeteo_url", "get_data", "parse_weather">>

\* C1: fetch_weather_data runs its stages in the order resolve coordinates,
\* build URL, HTTP GET, parse; once a stage has failed no later stage runs
\* and the call ends with exactly that stage's exception; when no stage
\* fails the call returns the record parse_weather produced.
C1_FetchStagesInOrder ==
    /\ Len(calls) <= Len(StageOrder)
    /\ \A i \in 1..Len(calls) : calls[i].stage = StageOrder[i]
    /\ \A i \in 1..Len(calls) : Raised(calls[i].out) => i = Len(calls)
    /\ \A i \in 1..Len(calls) :
         Raised(calls[i].out) => pc = "raised" /\ fetched = calls[i].out
    /\ pc = "raised" => Len(calls) > 0 /\ Raised(calls[Len(calls)].out)
    /\ pc = "returned" =>
         /\ Len(calls) = Len(StageOrder)
         /\ ~Raised(fetched)
         /\ fetched = calls[Len(calls)].out
         /\ calls[Len(calls)].out = parse_weather(raw_data)

\* C1 witness: the HTTP GET failed after two successful stages, and the call
\* has ended with the requester's exception.
C1_Witness ==
    /\ pc = "raised"
    /\ Len(calls) = 3
    /\ fetched.exc = "Exception"

\* What the response parser is said to return: each field, or None where the
\* field, its parent or the first element of its array is missing.
FirstOrNone(daily, key) ==
    IF key \in DOMAIN daily /\ Len(daily[key]) > 0 THEN daily[key][1] ELSE None

TolerantRecord(data) ==
    LET current == IF "current_weather" \in DOMAIN data
                   THEN data["current_weather"] ELSE EmptyDict
        daily   == IF "daily" \in DOMAIN data THEN data["daily"] ELSE EmptyDict
    IN  << IF "temperature" \in DOMAIN current THEN current["temperature"] ELSE None,
           FirstOrNone(daily, "temperature_2m_min"),
           FirstOrNone(daily, "temperature_2m_max"),
           FirstOrNone(daily, "time") >>

\* C2: parse never fails on missing fields: whichever of current_weather,
\* daily, temperature, temperature_2m_min, temperature_2m_max, time is
\* missing, and whichever daily array is empty, parse_weather returns a
\* 4-field record with None in the corresponding field.
C2_ParseNeverFails ==
    \A i \in 1..Len(calls) :
        calls[i].stage = "parse_weather" =>
            /\ ~Raised(calls[i].out)
            /\ calls[i].out.value = TolerantRecord(raw_data)

(***************************************************************************)
(* Properties of the spreadsheet layer, checked under Spec.               *)
(***************************************************************************)
\* the sheet a read names: the named one, or the default (active) one
SheetTitle(wb, name) == IF name = "" THEN wb.sheetnames[1] ELSE name

\* the header name of column c, and the width of the sheet
HeaderAt(ws, c) == HeaderText(Cell(ws, 1, c))
Width(ws) == max_column(ws)

\* m is row r of ws as a header-keyed mapping: its keys are the header names
\* and each name maps to the row's value in the (last) column of that name
IsMappingOfRow(m, ws, r) ==
    /\ DOMAIN m = { HeaderAt(ws, c) : c \in 1..Width(ws) }
    /\ \A c \in 1..Width(ws) :
         (\A d \in (c + 1)..Width(ws) : HeaderAt(ws, d) # HeaderAt(ws, c))
            => m[HeaderAt(ws, c)] = Cell(ws, r, c)

\* out is the rows first..lastr of ws, in sheet order, as mappings
IsRowsOf(out, ws, first, lastr) ==
    /\ ~Raised(out)
    /\ Len(out.value) = Max({0, lastr - first + 1})
    /\ \A i \in 1..Len(out.value) : IsMappingOfRow(out.value[i], ws, first + i - 1)

IsInvalidArgument(out) ==
    /\ out.exc = "ValueError"
    /\ out.msg = "n_rows must be a positive integer."
    /\ out.value = <<>>

\* the last call was get_data(n, from_top, sheet) on an opened DataGetter
\* whose workbook has the sheet
ReadTopOrBottom(from_top) ==
    /\ last.op = "get_data"
    /\ last.args[2] = from_top
    /\ getter.workbook # <<>>
    /\ SheetTitle(getter.workbook[1], last.args[3]) \in DOMAIN getter.workbook[1].sheets

ReadSheet(name) == getter.workbook[1].sheets[SheetTitle(getter.workbook[1], name)]

\* C3: on an opened reader, getTop(n) with n >= 1 returns exactly the rows
\* 2..min(n+1, lastRow) in sheet order (min(n, lastRow-1) rows, none on a
\* header-only sheet); with n < 1 it fails with the invalid-argument error
\* and returns no rows.
C3_GetTopRows ==
    ReadTopOrBottom(TRUE) =>
        LET n       == last.args[1]
            ws      == ReadSheet(last.args[3])
            lastRow == max_row(ws)
        IN  IF n >= 1
            THEN /\ IsRowsOf(last.out, ws, 2, Min({n + 1, lastRow}))
                 /\ Len(last.out.value) = Min({n, lastRow - 1})
            ELSE IsInvalidArgument(last.out)

\* C3 witness: getTop(1) on a sheet with two data rows returned one row
C3_Witness ==
    /\ ReadTopOrBottom(TRUE)
    /\ last.args[1] = 1
    /\ max_row(ReadSheet(last.args[3])) = 3
    /\ Len(last.out.value) = 1

\* C4: on an opened reader, getBottom(n) with n >= 1 returns exactly the rows
\* max(2, lastRow-n+1)..lastRow in sheet order, never the header row and
\* never more than lastRow-1 rows; with n < 1 it fails with the
\* invalid-argument error.
C4_GetBottomRows ==
    ReadTopOrBottom(FALSE) =>
        LET n       == last.args[1]
            ws      == ReadSheet(last.args[3])
            lastRow == max_row(ws)
        IN  IF n >= 1
            THEN /\ IsRowsOf(last.out, ws, Max({2, lastRow - n + 1}), lastRow)
                 /\ Len(last.out.value) <= lastRow - 1
            ELSE IsInvalidArgument(last.out)

\* C4 witness: getBottom(1) on a sheet with two data rows returned one row
C4_Witness ==
    /\ ReadTopOrBottom(FALSE)
    /\ last.args[1] = 1
    /\ max_row(ReadSheet(last.args[3])) = 3
    /\ Len(last.out.value) = 1

\* the last call was get_all_data(sheet) on an opened DataGetter whose sheet
\* holds a header row
ReadAll ==
    /\ last.op = "get_all_data"
    /\ getter.workbook # <<>>
    /\ SheetTitle(getter.workbook[1], last.args[1]) \in DOMAIN getter.workbook[1].sheets
    /\ Len(ReadSheet(last.args[1])) >= 1

\* C5: on an opened reader and a sheet of a header row followed by zero or
\* more data rows, getAll returns every data row in order, and its result
\* equals that of getTop(lastRow-1).
C5_GetAllReturnsEveryDataRow ==
    ReadAll =>
        LET ws      == ReadSheet(last.args[1])
            lastRow == max_row(ws)
        IN  /\ IsRowsOf(last.out, ws, 2, lastRow)
            /\ last.out = get_data(getter.workbook, lastRow - 1, TRUE, last.args[1])

ReadOps == { "get_sheet", "get_data", "get_all_data" }

\* C6: every read issued while the workbook is not loaded fails with the
\* not-loaded error (RuntimeError), and open_file on a loaded workbook keeps
\* the loaded workbook as it is, without reloading it from the file.
C6_ReaderLifecycle ==
    /\ [](last.op \in ReadOps /\ getter.workbook = <<>>
            => last.out.exc = "RuntimeError" /\ last.out.msg = "Workbook is not loaded.")
    /\ [][ last'.op = "open_file" /\ getter.workbook # <<>> => getter' = getter ]_vars

\* C6 witness: open_file was just called on a reader whose loaded workbook is
\* older than the file, and the workbook is still the old one
C6_Witness ==
    /\ last.op = "open_file"
    /\ getter.workbook # <<>>
    /\ getter.workbook[1] # load_workbook(disk)

\* two workbooks hold the same sheets with the same value in every cell
SameCells(a, b) ==
    /\ a.sheetnames = b.sheetnames
    /\ DOMAIN a.sheets = DOMAIN b.sheets
    /\ \A t \in DOMAIN a.sheets :
         \A r \in 1..(MaxRows + 1), c \in 1..(Len(headers_row) + 1) :
            Cell(a.sheets[t], r, c) = Cell(b.sheets[t], r, c)

\* C7: save_data(row) with a non-empty list or tuple appends the row as the
\* new last row of the writer's sheet and saves, so that the file holds what
\* the workbook in memory holds; with an empty row or a row that is no list
\* or tuple it fails with the invalid-row error (ValueError) and leaves the
\* sheet in memory and the file unchanged.
C7_AppendPersists ==
    [][ last'.op = "save_data" =>
          LET row == last'.args[1] IN
          IF row.type \in {"list", "tuple"} /\ row.items # <<>>
          THEN /\ ~Raised(last'.out)
               /\ saver'.ws = saver.ws
               /\ saver'.wb.sheets[saver.ws] = Append(saver.wb.sheets[saver.ws], row.items)
               /\ disk'.exists
               /\ SameCells(load_workbook(disk'), saver'.wb)
          ELSE /\ last'.out.exc = "ValueError"
               /\ saver' = saver
               /\ disk' = disk ]_vars

\* C7 witness: a successful save_data has added a second data row
C7_Witness ==
    /\ last.op = "save_data"
    /\ ~Raised(last.out)
    /\ Len(saver.wb.sheets[saver.ws]) = 3

RECURSIVE ItemsOf(_)
ItemsOf(rows) ==
    IF rows = <<>> THEN <<>> ELSE <<rows[1].items>> \o ItemsOf(Tail(rows))

\* C8: save_rows(rows) with every row valid appends the rows in the order
\* given after the rows already present, and saves the workbook exactly
\* once, after the last append.
C8_AppendManySavesOnce ==
    [][ /\ last'.op = "save_rows"
        /\ \A i \in 1..Len(last'.args[1]) :
             last'.args[1][i].type \in {"list", "tuple"} /\ last'.args[1][i].items # <<>>
        => /\ ~Raised(last'.out)
           /\ saver'.wb.sheets[saver.ws] = saver.wb.sheets[saver.ws] \o ItemsOf(last'.args[1])
           /\ events' = [ i \in 1..Len(last'.args[1]) |-> "append" ] \o <<"save">>
           /\ SameCells(load_workbook(disk'), saver'.wb) ]_vars

\* C8 witness: a successful save_rows of two rows
C8_Witness ==
    /\ last.op = "save_rows"
    /\ Len(last.args[1]) = 2
    /\ ~Raised(last.out)
    /\ events = <<"append", "append", "save">>

\* DataGetter(path), open_file(), get_all_data() on the file
ReadBack(file) ==
    get_all_data(open_file(DataGetter_init(file).value, file).workbook, "")

\* the header-keyed mapping of a row of header length
RowMapping(items) ==
    [ h \in { PyStr(headers_row[c]) : c \in 1..Len(headers_row) } |->
        items[CHOOSE c \in 1..Len(headers_row) : PyStr(headers_row[c]) = h] ]

\* C9: round trip: N >= 1 rows of header length written by save_rows to the
\* default sheet of a dataset that holds only the header, then read by
\* get_all_data, come back as exactly those N rows, in order, each as a
\* header-keyed mapping with its values.
C9_RoundTrip ==
    [][ /\ last'.op = "save_rows"
        /\ disk = wb_save(append_row(NewWorkbook, "Sheet", headers_row))
        /\ saver.wb = load_workbook(disk)
        /\ saver.ws = "Sheet"
        /\ Len(last'.args[1]) >= 1
        /\ \A i \in 1..Len(last'.args[1]) :
             /\ last'.args[1][i].type \in {"list", "tuple"}
             /\ Len(last'.args[1][i].items) = Len(headers_row)
        => /\ ~Raised(last'.out)
           /\ ReadBack(disk') =
                Ok([ i \in 1..Len(last'.args[1]) |-> RowMapping(last'.args[1][i].items) ]) ]_vars

\* the sheet read has a header of four cells and a row of three cells
HasShortRow(ws) ==
    /\ Len(ws) >= 2
    /\ Len(ws[1]) = 4
    /\ \E r \in 2..Len(ws) : Len(ws[r]) = 3

\* C10: save_data of a row of length 3 to a sheet whose header has length 4
\* succeeds, and a later get_all_data on that sheet fails with the
\* schema-mismatch error (ValueError, row length does not match header
\* length).
C10_ShortRowFailsOnRead ==
    /\ (last.op = "save_data" /\ ValidRow(last.args[1]) /\ Len(last.args[1].items) = 3)
         => ~Raised(last.out)
    /\ (ReadAll /\ HasShortRow(ReadSheet(last.args[1])))
         => (/\ last.out.exc = "ValueError"
             /\ last.out.msg = "Row length does not match header length.")

(***************************************************************************)
(* Properties of sheet selection, checked under SpecSheets.               *)
(***************************************************************************)
\* the cells of a file that holds the one header row and nothing else
HeaderOnlyCells ==
    { <<1, 1, Str("current_temp")>>, <<1, 2, Str("min_temp")>>,
      <<1, 3, Str("max_temp")>>, <<1, 4, Str("date")>> }

\* C11: constructing a DataSaver creates an absent file as a workbook whose
\* default sheet holds exactly the header row current_temp, min_temp,
\* max_temp, date, and leaves an existing file as it is; afterwards the
\* DataSaver's sheet is the named sheet (an existing one with its rows
\* intact, otherwise a new empty sheet of that name added to the workbook)
\* or, without a name, the workbook's default sheet.
C11_WriterConstruction ==
    [][ last'.op = "DataSaver" =>
          LET name == last'.args[1] IN
          /\ ~disk.exists =>
                /\ disk'.exists
                /\ disk'.sheetnames = << "Sheet" >>
                /\ DOMAIN disk'.cells = { "Sheet" }
                /\ disk'.cells["Sheet"] = HeaderOnlyCells
          /\ disk.exists => disk' = disk
          /\ saver'.exists
          /\ saver'.ws = (IF name = "" THEN disk'.sheetnames[1] ELSE name)
          /\ \A t \in DOMAIN disk'.cells :
                /\ t \in DOMAIN saver'.wb.sheets
                /\ CellsOf(saver'.wb.sheets[t]) = disk'.cells[t]
          /\ (name # "" /\ name \notin DOMAIN disk'.cells) =>
                /\ saver'.wb.sheetnames = Append(disk'.sheetnames, name)
                /\ saver'.wb.sheets[name] = << >>
          /\ (name = "" \/ name \in DOMAIN disk'.cells) =>
                /\ saver'.wb.sheetnames = disk'.sheetnames
                /\ DOMAIN saver'.wb.sheets = DOMAIN disk'.cells
      ]_vars

\* a DataSaver was constructed for a sheet name the file holds with a row
C11_Witness ==
    /\ last.op = "DataSaver"
    /\ last.args[1] = "Log"
    /\ "Log" \in DOMAIN disk.cells
    /\ disk.cells["Log"] # {}
    /\ saver.ws = "Log"
    /\ Len(saver.wb.sheets["Log"]) >= 1

\* the reader's own sheet-not-found error, as get_sheet documents and words it
IsSheetNotFound(out) ==
    /\ out.exc = "ValueError"
    /\ out.msg = "Sheet not found in workbook."
    /\ out.value = << >>

\* the last call was a read of an opened DataGetter
SheetRead ==
    /\ last.op \in { "get_sheet", "get_data", "get_all_data" }
    /\ getter.workbook # << >>

\* C12: with the workbook loaded, a read given a sheet name the workbook
\* holds reads that sheet, a read given no name reads the default sheet, and
\* a read given a name the workbook does not hold fails with the reader's
\* sheet-not-found error (no other kind of error) and returns no rows.
C12_ReaderSheetSelection ==
    SheetRead =>
        LET wb    == getter.workbook[1]
            name  == last.args[Len(last.args)]
            title == SheetTitle(wb, name)
        IN  IF title \notin DOMAIN wb.sheets
            THEN IsSheetNotFound(last.out)
            ELSE /\ last.op = "get_sheet" => last.out = Ok(title)
                 /\ (last.op = "get_data" /\ last.args[1] >= 1) =>
                       LET ws == wb.sheets[title]
                           n  == last.args[1]
                       IN  IF last.args[2]
                           THEN IsRowsOf(last.out, ws, 2, Min({n + 1, max_row(ws)}))
                           ELSE IsRowsOf(last.out, ws,
                                         Max({2, max_row(ws) - n + 1}), max_row(ws))

(***************************************************************************)
(* Properties of the entry point, checked under SpecMain.                 *)
(***************************************************************************)
\* main has ended: it returned, or an exception left it
MainEnded == mpc \in { "done", "raised" }

\* C13: however a run of main ends (it returns, or an error of preferences
\* loading, of the fetch, of the DataSaver's construction or of the append
\* leaves it), every workbook loaded during the run has been closed.
C13_HandlesReleased ==
    MainEnded => \A i \in 1..Len(handles) : handles[i].closed

(***************************************************************************)
(* Properties of the reads of a five-day dataset, checked under SpecDays. *)
(***************************************************************************)
\* the last call was get_data(2, from_top) on an opened DataGetter whose
\* default sheet holds the header row and 5 data rows
ReadTwoOfFive(from_top) ==
    /\ last.op = "get_data"
    /\ last.args[1] = 2
    /\ last.args[2] = from_top
    /\ getter.workbook # << >>
    /\ Len(ReadSheet("")) = 6
    /\ max_row(ReadSheet("")) = 6
    /\ CellsOf(<< ReadSheet("")[1] >>) = HeaderOnlyCells

\* C14, as stated: on a sheet with a header row and 5 data rows getTop(2)
\* returns exactly rows 2-3 and getBottom(2) returns exactly rows 6-7.
C14_TopAndBottomOfFive_Stated ==
    /\ ReadTwoOfFive(TRUE) => IsRowsOf(last.out, ReadSheet(""), 2, 3)
    /\ ReadTwoOfFive(FALSE) => IsRowsOf(last.out, ReadSheet(""), 6, 7)

\* C14, amended: on a sheet with a header row and 5 data rows getTop(2)
\* returns exactly rows 2-3 and getBottom(2) returns exactly rows 5-6, the
\* last two rows of the sheet.
C14_TopAndBottomOfFive ==
    /\ ReadTwoOfFive(TRUE) => IsRowsOf(last.out, ReadSheet(""), 2, 3)
    /\ ReadTwoOfFive(FALSE) => IsRowsOf(last.out, ReadSheet(""), 5, 6)

\* getBottom(2) was called on a header and 5 data rows, of which rows 4, 5
\* and 6 are not all alike
C14_Witness ==
    /\ ReadTwoOfFive(FALSE)
    /\ ~Raised(last.out)
    /\ ReadSheet("")[4] # ReadSheet("")[5]
    /\ ReadSheet("")[5] # ReadSheet("")[6]

(***************************************************************************)
(* Properties of the rows a DataSaver appends, checked under SpecSheets   *)
(* and Spec.                                                               *)
(***************************************************************************)
\* C15: row 1 of the DataSaver's sheet is reserved for the header: whatever
\* the constructions (with or without a sheet name, on an absent or an
\* existing file) and the appends before, a save_data or save_rows call
\* stores none of its rows in row 1; the sheet holds a row 1 already and
\* the call leaves it as it is, the appended rows going to rows 2..N.
C15_RowOneReserved ==
    [][ ( /\ last'.op \in { "save_data", "save_rows" }
          /\ saver'.wb # saver.wb )
        => /\ Len(saver.wb.sheets[saver.ws]) >= 1
           /\ saver'.wb.sheets[saver'.ws][1] = saver.wb.sheets[saver.ws][1]
      ]_vars

\* the rows a DataSaver call was given: the one row of save_data, the rows
\* of save_rows
RowsGiven(call) ==
    IF call.op = "save_data" THEN << call.args[1] >> ELSE call.args[1]

\* the index of the first row of rows that _validate_row rejects
FirstInvalid(rows) == Min({ i \in 1..Len(rows) : ~ValidRow(rows[i]) })

\* C16: a failed save_rows is not atomic in memory.  When the k-th row is the
\* first invalid one the call fails with the invalid-row ValueError without
\* saving, so the file is unchanged by the call, but the k-1 rows before it
\* stay appended to the sheet in memory; and a later save_data or save_rows
\* of the same DataSaver that succeeds writes the sheet in memory, those
\* rows included, followed by its own rows, to the file.
C16_FailedAppendManyKeepsRows ==
    [][ /\ ( /\ last'.op = "save_rows"
             /\ \E i \in 1..Len(last'.args[1]) : ~ValidRow(last'.args[1][i]) )
           => LET k == FirstInvalid(last'.args[1]) IN
              /\ last'.out.exc = "ValueError"
              /\ last'.out.msg = "Row must be a non-empty list or tuple"
              /\ events' = [ i \in 1..(k - 1) |-> "append" ]
              /\ disk' = disk
              /\ saver'.ws = saver.ws
              /\ saver'.wb.sheets[saver.ws] =
                    saver.wb.sheets[saver.ws] \o ItemsOf(SubSeq(last'.args[1], 1, k - 1))
        /\ ( /\ last'.op \in { "save_data", "save_rows" }
             /\ ~Raised(last'.out) )
           => disk'.cells[saver.ws] =
                 CellsOf(saver.wb.sheets[saver.ws] \o ItemsOf(RowsGiven(last')))
      ]_vars

\* a save_rows failed at its second row: the first row is in the sheet in
\* memory and not in the file
C16_Witness ==
    /\ last.op = "save_rows"
    /\ Len(last.args[1]) = 2
    /\ ValidRow(last.args[1][1])
    /\ Raised(last.out)
    /\ events = << "append" >>
    /\ disk.cells[saver.ws] # CellsOf(saver.wb.sheets[saver.ws])
    /\ Len(saver.wb.sheets[saver.ws]) = Len(SheetOf(disk.cells[saver.ws])) + 1

====
